---- MODULE Spec2Model ----
(***************************************************************************)
(* Model of the task priority scoring engine (src/tasks/scoring.py).       *)
(*                                                                         *)
(* Number representation.  Python floats are modelled by exact fixed-point *)
(* integers:                                                               *)
(*   - importance and estimated_hours are carried in tenths (4h = 40),     *)
(*   - component scores and the blended priority score in hundredths       *)
(*     (95.0 = 9500),                                                      *)
(*   - strategy weights in hundredths (0.35 = 35),                         *)
(*   - an explanation's contribution in tenths (17.5 = 175).               *)
(* A due date is carried as its distance in days from date.today(), so     *)
(* (due_date - today).days is the day field of the parsed date.            *)
(***************************************************************************)
EXTENDS Integers, Sequences, FiniteSets, TLC

VARIABLES
    tasks,      \* the task list handed to the core (sequence of task records)
    strategy,   \* the strategy name handed to the core
    pc,         \* "ready" before the call, "done" after it returned or raised
    op,         \* the entry point that was called
    arg,        \* the call's scalar argument (task position or count), 0 if none
    result,     \* the value returned by the call
    raised,     \* "none", or the name of the exception that escaped the call
    tie_up      \* how round() resolves an exact decimal tie in this run

vars == <<tasks, strategy, pc, op, arg, result, raised, tie_up>>

----------------------------------------------------------------------------
(* Bounds of the checked instances *)

\* longest task list of the entry-point specification
MaxTasks == 3
\* longest task list of the cycle-detection specification
GraphTasks == 3
\* most dependency entries, over all tasks, in the cycle-detection specification
MaxEdges == 4
\* longest task list of the dependency-scorer specification
DepTasks == 4
\* largest |days from today| of a due date in the scorer specification
MaxDays == 36
\* largest estimated_hours (in whole hours) in the scorer specification
MaxHours == 38
\* largest importance rating (whole points) in the scorer specification
MaxImportance == 12

----------------------------------------------------------------------------
(* Values of the loosely typed task fields *)

NoDate == [some |-> FALSE, day |-> 0]
SomeDate(d) == [some |-> TRUE, day |-> d]

\* a field that is not in the task dict at all
Absent == [kind |-> "absent"]
\* a field that is present with value None
Null == [kind |-> "null"]
\* an int or float, in tenths
Num(v) == [kind |-> "num", val |-> v]
\* a string that float() accepts, in tenths
NumStr(v) == [kind |-> "numstr", val |-> v]
\* a string that float() rejects with ValueError
BadStr == [kind |-> "str"]
\* an object that float() rejects with TypeError (a list)
BadObj == [kind |-> "obj"]

\* due_date shapes: a date, a datetime (date plus time of day), 'YYYY-MM-DD',
\* an ISO-8601 string with a trailing Z, another string, another object
DateVal(d) == [kind |-> "date", day |-> d]
DateTimeVal(d, s) == [kind |-> "datetime", day |-> d, secs |-> s]
IsoDateStr(d) == [kind |-> "isodate", day |-> d]
IsoZStr(d, s) == [kind |-> "isoz", day |-> d, secs |-> s]

\* dependencies shapes: a list of ids, or a value that is not a list
DepList(ids) == [kind |-> "list", ids |-> ids]
NotAList == [kind |-> "obj"]

\* dict.get(key): None for a missing key as for a stored None
Get(v) == IF v.kind = "absent" THEN Null ELSE v

\* dict.get(key, default)
GetOr(v, default) == IF v.kind = "absent" THEN default ELSE v

----------------------------------------------------------------------------
(* Arithmetic helpers *)

Max(a, b) == IF a >= b THEN a ELSE b
Min(a, b) == IF a <= b THEN a ELSE b
Abs(a) == IF a < 0 THEN -a ELSE a

\* round(x / d) to the nearest integer for x >= 0 and d > 0.  Python rounds the
\* binary float, which lies just above or just below an exact decimal tie
\* (round(56.775, 2) = 56.77, round(58.825, 2) = 58.83), so a tie goes to the
\* neighbour that tie_up selects
RoundDiv(x, d) ==
    LET q == x \div d
        r == x % d
    IN  IF 2 * r < d THEN q
        ELSE IF 2 * r > d THEN q + 1
        ELSE IF tie_up THEN q + 1 ELSE q

\* float(x): the number of an int, float or numeric string; ValueError for
\* another string and TypeError for another object (both caught by callers)
ToFloat(v) ==
    IF v.kind \in {"num", "numstr"} THEN [ok |-> TRUE, val |-> v.val]
    ELSE [ok |-> FALSE, val |-> 0]

----------------------------------------------------------------------------
(* Configuration *)

STRATEGY_WEIGHTS ==
    [smart_balance |->
        [urgency |-> 35, importance |-> 30, effort |-> 15, dependencies |-> 20],
     quick_wins |->
        [urgency |-> 15, importance |-> 15, effort |-> 55, dependencies |-> 15],
     high_impact |->
        [urgency |-> 15, importance |-> 60, effort |-> 10, dependencies |-> 15],
     deadline_driven |->
        [urgency |-> 60, importance |-> 15, effort |-> 10, dependencies |-> 15]]

\* DEFAULTS, importance and estimated_hours in tenths
DEFAULTS == [importance |-> 50, estimated_hours |-> 40, dependencies |-> <<>>]

\* STRATEGY_WEIGHTS.get(strategy, STRATEGY_WEIGHTS['smart_balance'])
WeightsFor(s) ==
    IF s \in DOMAIN STRATEGY_WEIGHTS THEN STRATEGY_WEIGHTS[s]
    ELSE STRATEGY_WEIGHTS["smart_balance"]

----------------------------------------------------------------------------
(* The date parser and the four component scorers *)

parse_date(date_value) ==
    IF date_value.kind \in {"absent", "null"} THEN NoDate
    ELSE IF date_value.kind = "date" THEN SomeDate(date_value.day)
    ELSE IF date_value.kind = "datetime" THEN SomeDate(date_value.day)
    ELSE IF date_value.kind = "isodate" THEN SomeDate(date_value.day)
    ELSE IF date_value.kind = "isoz" THEN SomeDate(date_value.day)
    ELSE NoDate

\* variant of UrgencyOf whose medium band ends before day 7
UrgencyOf_WeekExclusive(due_date) ==
    IF ~due_date.some
    THEN [score |-> 5000, exp |-> [text |-> "No due date set (neutral urgency)", n |-> 0]]
    ELSE IF due_date.day < 0
    THEN [score |-> 10000, exp |-> [text |-> "OVERDUE by", n |-> Abs(due_date.day)]]
    ELSE IF due_date.day = 0
    THEN [score |-> 9500, exp |-> [text |-> "Due TODAY!", n |-> 0]]
    ELSE IF due_date.day <= 3
    THEN [score |-> 100 * (94 - (due_date.day - 1) * 5),
          exp |-> [text |-> "High urgency", n |-> due_date.day]]
    ELSE IF due_date.day < 7
    THEN [score |-> 100 * (79 - (due_date.day - 4) * 7),
          exp |-> [text |-> "Medium urgency", n |-> due_date.day]]
    ELSE IF due_date.day <= 14
    THEN [score |-> 100 * (49 - (due_date.day - 8) * 3),
          exp |-> [text |-> "Low urgency", n |-> due_date.day]]
    ELSE [score |-> 100 * Max(10, 29 - (due_date.day - 15)),
          exp |-> [text |-> "Not urgent", n |-> due_date.day]]

\* the urgency table, on the parsed due date
UrgencyOf(due_date) ==
    IF ~due_date.some
    THEN [score |-> 5000, exp |-> [text |-> "No due date set (neutral urgency)", n |-> 0]]
    ELSE IF due_date.day < 0
    THEN [score |-> 10000, exp |-> [text |-> "OVERDUE by", n |-> Abs(due_date.day)]]
    ELSE IF due_date.day = 0
    THEN [score |-> 9500, exp |-> [text |-> "Due TODAY!", n |-> 0]]
    ELSE IF due_date.day <= 3
    THEN [score |-> 100 * (94 - (due_date.day - 1) * 5),
          exp |-> [text |-> "High urgency", n |-> due_date.day]]
    ELSE IF due_date.day <= 7
    THEN [score |-> 100 * (79 - (due_date.day - 4) * 7),
          exp |-> [text |-> "Medium urgency", n |-> due_date.day]]
    ELSE IF due_date.day <= 14
    THEN [score |-> 100 * (49 - (due_date.day - 8) * 3),
          exp |-> [text |-> "Low urgency", n |-> due_date.day]]
    ELSE [score |-> 100 * Max(10, 29 - (due_date.day - 15)),
          exp |-> [text |-> "Not urgent", n |-> due_date.day]]

\* days_until_due = (due_date - today).days is the day field of the parsed date
calculate_urgency_score(task) == UrgencyOf(parse_date(Get(task.due_date)))

\* variant of ClampImportance that forgets the upper clamp
ClampImportance_NoUpper(f) ==
    IF f.ok THEN Max(10, f.val) ELSE DEFAULTS.importance

\* float(importance) clamped to 1..10, or the default when float() fails
ClampImportance(f) ==
    IF f.ok THEN Max(10, Min(100, f.val)) ELSE DEFAULTS.importance

\* None is replaced by the default before the conversion
OrDefault(given, default) == IF given.kind = "null" THEN Num(default) ELSE given

\* the clamped rating, in tenths, that calculate_importance_score scales
ImportanceUsed(task) ==
    ClampImportance(ToFloat(OrDefault(Get(task.importance), DEFAULTS.importance)))

\* variant of ImportanceOf whose label thresholds are exclusive
ImportanceOf_Exclusive(importance) ==
    [score |-> importance * 100,
     exp |-> [text |-> IF importance > 80 THEN "Critical"
                       ELSE IF importance > 60 THEN "High"
                       ELSE IF importance > 40 THEN "Medium"
                       ELSE "Low",
              n |-> importance \div 10]]

\* score and label of a clamped rating
ImportanceOf(importance) ==
    [score |-> importance * 100,
     exp |-> [text |-> IF importance >= 80 THEN "Critical"
                       ELSE IF importance >= 60 THEN "High"
                       ELSE IF importance >= 40 THEN "Medium"
                       ELSE "Low",
              n |-> importance \div 10]]

calculate_importance_score(task) == ImportanceOf(ImportanceUsed(task))

\* variant of FloorHours without the 30 minute floor
FloorHours_NoFloor(f) ==
    IF f.ok THEN f.val ELSE DEFAULTS.estimated_hours

\* max(0.5, float(hours)), or the default when float() fails
FloorHours(f) ==
    IF f.ok THEN Max(5, f.val) ELSE DEFAULTS.estimated_hours

\* the hours, in tenths, that calculate_effort_score maps to a score
HoursUsed(task) ==
    FloorHours(ToFloat(OrDefault(Get(task.estimated_hours), DEFAULTS.estimated_hours)))

\* variant of EffortOf whose multi-day band starts from 50 instead of 40
EffortOf_MultiDayFromFifty(hours) ==
    IF hours <= 10
    THEN [score |-> 10000, exp |-> [text |-> "Quick task", n |-> hours]]
    ELSE IF hours <= 20
    THEN [score |-> 9000, exp |-> [text |-> "Quick win", n |-> hours]]
    ELSE IF hours <= 40
    THEN [score |-> 8000 - (hours - 20) * 50,
          exp |-> [text |-> "Half-day task", n |-> hours]]
    ELSE IF hours <= 80
    THEN [score |-> 7000 - (hours - 40) * 75,
          exp |-> [text |-> "Full-day task", n |-> hours]]
    ELSE IF hours <= 160
    THEN [score |-> 5000 - (hours - 80) * 25,
          exp |-> [text |-> "Multi-day task", n |-> hours]]
    ELSE [score |-> Max(1000, 2000 - (hours - 160) * 5),
          exp |-> [text |-> "Major effort", n |-> hours]]

\* the effort table, on the hours used
EffortOf(hours) ==
    IF hours <= 10
    THEN [score |-> 10000, exp |-> [text |-> "Quick task", n |-> hours]]
    ELSE IF hours <= 20
    THEN [score |-> 9000, exp |-> [text |-> "Quick win", n |-> hours]]
    ELSE IF hours <= 40
    THEN [score |-> 8000 - (hours - 20) * 50,
          exp |-> [text |-> "Half-day task", n |-> hours]]
    ELSE IF hours <= 80
    THEN [score |-> 7000 - (hours - 40) * 75,
          exp |-> [text |-> "Full-day task", n |-> hours]]
    ELSE IF hours <= 160
    THEN [score |-> 4000 - (hours - 80) * 25,
          exp |-> [text |-> "Multi-day task", n |-> hours]]
    ELSE [score |-> Max(1000, 2000 - (hours - 160) * 5),
          exp |-> [text |-> "Major effort", n |-> hours]]

calculate_effort_score(task) == EffortOf(HoursUsed(task))

\* task.get('dependencies') or [], then [] unless it is a list
DepsOf(task) ==
    LET d == Get(task.dependencies)
    IN  IF d.kind = "list" THEN d.ids ELSE <<>>

InSeq(x, s) == \E i \in 1..Len(s) : s[i] = x

\* the number of tasks of all_tasks whose dependency list contains task_id
BlockingCount(task_id, all_tasks) ==
    Cardinality({i \in 1..Len(all_tasks) : InSeq(task_id, DepsOf(all_tasks[i]))})

\* variant of DependencyOf that looks at the blocked tasks before the task's
\* own dependencies
DependencyOf_BlockersFirst(own_deps, blocking_count) ==
    IF blocking_count >= 3
    THEN [score |-> 10000, exp |-> [text |-> "Blocks tasks - Critical path!", n |-> blocking_count]]
    ELSE IF blocking_count = 2
    THEN [score |-> 8000, exp |-> [text |-> "Blocks tasks", n |-> blocking_count]]
    ELSE IF blocking_count = 1
    THEN [score |-> 6000, exp |-> [text |-> "Blocks task", n |-> blocking_count]]
    ELSE IF own_deps > 0
    THEN [score |-> 2000, exp |-> [text |-> "Blocked by", n |-> own_deps]]
    ELSE [score |-> 4000, exp |-> [text |-> "Independent task", n |-> 0]]

\* the dependency policy, on the task's own dependency count and on the
\* number of tasks it blocks
DependencyOf(own_deps, blocking_count) ==
    IF own_deps > 0
    THEN [score |-> 2000, exp |-> [text |-> "Blocked by", n |-> own_deps]]
    ELSE IF blocking_count >= 3
    THEN [score |-> 10000, exp |-> [text |-> "Blocks tasks - Critical path!", n |-> blocking_count]]
    ELSE IF blocking_count = 2
    THEN [score |-> 8000, exp |-> [text |-> "Blocks tasks", n |-> blocking_count]]
    ELSE IF blocking_count = 1
    THEN [score |-> 6000, exp |-> [text |-> "Blocks task", n |-> blocking_count]]
    ELSE [score |-> 4000, exp |-> [text |-> "Independent task", n |-> 0]]

calculate_dependency_score(task, all_tasks) ==
    DependencyOf(Len(DepsOf(task)), BlockingCount(task.id, all_tasks))

----------------------------------------------------------------------------
(* Blending, explanation *)

\* the weighted sum of four component scores, in 1/10000
Blend(weights, u, i, e, d) ==
    u.score * weights.urgency + i.score * weights.importance
    + e.score * weights.effort + d.score * weights.dependencies

WeightedTotal(task, all_tasks, s) ==
    Blend(WeightsFor(s),
          calculate_urgency_score(task), calculate_importance_score(task),
          calculate_effort_score(task), calculate_dependency_score(task, all_tasks))

\* round(total_score, 2), in hundredths
calculate_priority_score(task, all_tasks, s) ==
    RoundDiv(WeightedTotal(task, all_tasks, s), 100)

\* variant of SortedPosition for a sort that reverses the input order of ties
SortedPosition_TiesReversed(keys, i) ==
    1 + Cardinality({j \in 1..Len(keys) : keys[j] > keys[i]})
      + Cardinality({j \in (i + 1)..Len(keys) : keys[j] = keys[i]})

\* list.sort(key=Key, reverse=True): descending by key, and stable, so the
\* element at input position i lands after every element with a larger key
\* and after the earlier elements with an equal key
SortedPosition(keys, i) ==
    1 + Cardinality({j \in 1..Len(keys) : keys[j] > keys[i]})
      + Cardinality({j \in 1..(i - 1) : keys[j] = keys[i]})

SortDescending(s, keys) ==
    [p \in 1..Len(s) |-> s[CHOOSE i \in 1..Len(s) : SortedPosition(keys, i) = p]]

\* the factors list of get_score_explanation before it is sorted
FactorList(weights, u, i, e, d) ==
    << [name |-> "Urgency", score |-> u.score, exp |-> u.exp, weight |-> weights.urgency],
       [name |-> "Importance", score |-> i.score, exp |-> i.exp, weight |-> weights.importance],
       [name |-> "Effort", score |-> e.score, exp |-> e.exp, weight |-> weights.effort],
       [name |-> "Dependencies", score |-> d.score, exp |-> d.exp, weight |-> weights.dependencies] >>

Factors(task, all_tasks, s) ==
    FactorList(WeightsFor(s),
               calculate_urgency_score(task), calculate_importance_score(task),
               calculate_effort_score(task), calculate_dependency_score(task, all_tasks))

\* variant of SortByWeight that leaves the factors as they were listed
SortByWeight_Unsorted(factors) == factors

\* factors.sort(key=lambda x: x[3], reverse=True)
SortByWeight(factors) ==
    SortDescending(factors, [k \in 1..Len(factors) |-> factors[k].weight])

\* the parts joined by " | ": name, component explanation, and
\* round(score * weight, 1) in tenths
RenderParts(sorted) ==
    [k \in 1..Len(sorted) |->
        [name |-> sorted[k].name,
         exp |-> sorted[k].exp,
         contribution |-> RoundDiv(sorted[k].score * sorted[k].weight, 1000)]]

get_score_explanation(task, all_tasks, s) ==
    RenderParts(SortByWeight(Factors(task, all_tasks, s)))

----------------------------------------------------------------------------
(* Cycle detection *)

\* the keys of the adjacency dict in insertion order: each id once, at the
\* position of the first task that carries it
GraphKeys(ts) ==
    LET first == {i \in 1..Len(ts) : \A j \in 1..(i - 1) : ts[j].id # ts[i].id}
        Nth(k) == CHOOSE i \in first : Cardinality({j \in first : j < i}) = k - 1
    IN  [k \in 1..Cardinality(first) |-> ts[Nth(k)].id]

\* graph[task_id] = deps: a later task with the same id overwrites an earlier
BuildGraph(ts) ==
    LET ids == {ts[i].id : i \in 1..Len(ts)}
        last(id) == CHOOSE i \in 1..Len(ts) :
                        /\ ts[i].id = id
                        /\ \A j \in (i + 1)..Len(ts) : ts[j].id # id
    IN  [keys |-> GraphKeys(ts), deps |-> [id \in ids |-> DepsOf(ts[last(id)])]]

\* path.index(node): the first position of node in path
IndexOf(path, node) ==
    CHOOSE i \in 1..Len(path) : path[i] = node /\ \A j \in 1..(i - 1) : path[j] # node

\* the search state shared by all calls of dfs: the three collections of the
\* code and, as a history of the search, the calls of dfs in the order they
\* are made, each with its arguments and with visited and rec_stack as the
\* call finds them
NewSearch == [cycles |-> <<>>, visited |-> {}, rec_stack |-> {}, calls |-> <<>>]

\* graph.get(node, [])
NeighborsOf(graph, node) ==
    IF node \in DOMAIN graph.deps THEN graph.deps[node] ELSE <<>>

\* variant of Followed that follows every declared dependency
Followed_Always(graph, neighbor) == TRUE

\* if neighbor in graph
Followed(graph, neighbor) == neighbor \in DOMAIN graph.deps

\* variant of AlreadyExplored that never skips a node
AlreadyExplored_Never(st, node) == FALSE

\* if node in visited
AlreadyExplored(st, node) == node \in st.visited

\* variant of ExtractCycle that reports the whole path, not its suffix
ExtractCycle_WholePath(path, node) == Append(path, node)

\* cycle = path[cycle_start:] + [node]
ExtractCycle(path, node) ==
    Append(SubSeq(path, IndexOf(path, node), Len(path)), node)

\* variant of MarkEntered that forgets visited.add(node)
MarkEntered_NoVisited(st, node) == [st EXCEPT !.rec_stack = @ \cup {node}]

\* variant of MarkEntered that forgets rec_stack.add(node)
MarkEntered_NoStack(st, node) == [st EXCEPT !.visited = @ \cup {node}]

\* visited.add(node); rec_stack.add(node)
MarkEntered(st, node) ==
    [st EXCEPT !.visited = @ \cup {node}, !.rec_stack = @ \cup {node}]

\* variant of MarkLeft that forgets rec_stack.remove(node)
MarkLeft_Never(st, node) == st

\* variant of MarkLeft that takes the node out of visited as well
MarkLeft_ClearsVisited(st, node) ==
    [st EXCEPT !.rec_stack = @ \ {node}, !.visited = @ \ {node}]

\* rec_stack.remove(node)
MarkLeft(st, node) == [st EXCEPT !.rec_stack = @ \ {node}]

\* the call dfs(node, path) begins
Called(st, node, path) ==
    [st EXCEPT !.calls = Append(@, [node |-> node, path |-> path,
                                    visited |-> st.visited,
                                    rec_stack |-> st.rec_stack])]

RECURSIVE dfs(_, _, _, _)
RECURSIVE dfs_neighbors(_, _, _, _, _)

\* the for loop of dfs over graph.get(node, []), from its k-th entry on;
\* every call of dfs gets its own copy of path
dfs_neighbors(graph, node, path, k, st) ==
    IF k > Len(NeighborsOf(graph, node)) THEN st
    ELSE dfs_neighbors(graph, node, path, k + 1,
            IF Followed(graph, NeighborsOf(graph, node)[k])
            THEN dfs(graph, NeighborsOf(graph, node)[k], path, st)
            ELSE st)

dfs(graph, node, path, st) ==
    IF node \in st.rec_stack
    THEN IF InSeq(node, path)
         THEN [Called(st, node, path) EXCEPT !.cycles = Append(@, ExtractCycle(path, node))]
         ELSE Called(st, node, path)
    ELSE IF AlreadyExplored(st, node) THEN Called(st, node, path)
    ELSE MarkLeft(dfs_neighbors(graph, node, Append(path, node), 1,
                                MarkEntered(Called(st, node, path), node)),
                  node)

RECURSIVE dfs_roots(_, _, _)
\* the loop over the graph's keys that starts dfs from each unvisited one
dfs_roots(graph, k, st) ==
    IF k > Len(graph.keys) THEN st
    ELSE dfs_roots(graph, k + 1,
            IF graph.keys[k] \notin st.visited
            THEN dfs(graph, graph.keys[k], <<>>, st)
            ELSE st)

\* the search state when the loop over the keys has ended
Search(ts) == dfs_roots(BuildGraph(ts), 1, NewSearch)

detect_circular_dependencies(ts) == Search(ts).cycles

----------------------------------------------------------------------------
(* Analysis and suggestions *)

\* variant of PriorityLevel whose medium band starts at 50
PriorityLevel_MediumFromFifty(score) ==
    IF score >= 7000 THEN "high"
    ELSE IF score >= 5000 THEN "medium"
    ELSE "low"

\* 'high' from 70, 'medium' from 40, else 'low'
PriorityLevel(score) ==
    IF score >= 7000 THEN "high"
    ELSE IF score >= 4000 THEN "medium"
    ELSE "low"

\* task.copy() with priority_score, explanation and priority_level added
WithScore(task, score, explanation) ==
    [id |-> task.id,
     due_date |-> task.due_date,
     estimated_hours |-> task.estimated_hours,
     importance |-> task.importance,
     dependencies |-> task.dependencies,
     priority_score |-> score,
     explanation |-> explanation,
     priority_level |-> PriorityLevel(score)]

\* variant of TaskCopy for scored_task = task: the scored task is the
\* caller's own record
TaskCopy_SameRecord(task) == [record |-> task, is_input |-> TRUE]

\* task.copy(): a new dict with the keys and values of task
TaskCopy(task) == [record |-> task, is_input |-> FALSE]

ScoredTask(task, all_tasks, s) ==
    WithScore(TaskCopy(task).record, calculate_priority_score(task, all_tasks, s),
              get_score_explanation(task, all_tasks, s))

\* the caller's record after scored_task received its three keys: the keys
\* reach it only if scored_task is that very record
InputAfter(task, scored_task, written) ==
    IF scored_task.is_input THEN written ELSE task

\* the caller's list after the loop of analyze_tasks; append and sort act on
\* the new list scored_tasks
InputsAfter(ts, strat) ==
    [i \in 1..Len(ts) |-> InputAfter(ts[i], TaskCopy(ts[i]), ScoredTask(ts[i], ts, strat))]

\* variant of EffectiveStrategy that reports the name as given
EffectiveStrategy_AsGiven(s) == s

\* the strategy analyze_tasks works with after validating the name
EffectiveStrategy(s) ==
    IF s \notin DOMAIN STRATEGY_WEIGHTS THEN "smart_balance" ELSE s

\* scored_tasks.sort(key=lambda x: x['priority_score'], reverse=True)
SortByScore(scored_tasks) ==
    SortDescending(scored_tasks,
                   [i \in 1..Len(scored_tasks) |-> scored_tasks[i].priority_score])

\* the scored copies of the tasks, in input order
ScoreAll(ts, strat) == [i \in 1..Len(ts) |-> ScoredTask(ts[i], ts, strat)]

analyze_tasks(ts, s) ==
    [tasks |-> SortByScore(ScoreAll(ts, EffectiveStrategy(s))),
     circular_dependencies |-> detect_circular_dependencies(ts),
     strategy_used |-> EffectiveStrategy(s),
     total_tasks |-> Len(ts)]

\* whether Python can order the value against an int: only numbers can,
\* None, strings and other objects raise TypeError
Comparable(v) == v.kind = "num"

\* whether 'Blocks' occurs in the explanation text
MentionsBlocks(explanation) ==
    \E k \in 1..Len(explanation) :
        explanation[k].exp.text \in {"Blocks tasks - Critical path!", "Blocks tasks", "Blocks task"}

\* the due-date clause of a suggestion reason
DueReasons(due_date) ==
    IF ~due_date.some THEN <<>>
    ELSE IF due_date.day < 0 THEN << [text |-> "overdue by", n |-> Abs(due_date.day)] >>
    ELSE IF due_date.day = 0 THEN << [text |-> "due today", n |-> 0] >>
    ELSE IF due_date.day <= 3 THEN << [text |-> "due in", n |-> due_date.day] >>
    ELSE <<>>

\* the clauses after the due-date clause; importance >= 8 and hours <= 2
\* raise TypeError unless both values are numbers
OtherReasons(importance, hours, explanation) ==
    (IF importance.val >= 80
     THEN << [text |-> "marked as highly important", n |-> 0] >> ELSE <<>>)
    \o (IF hours.val <= 20
        THEN << [text |-> "a quick win you can complete fast", n |-> 0] >> ELSE <<>>)
    \o (IF MentionsBlocks(explanation)
        THEN << [text |-> "blocking other tasks from starting", n |-> 0] >> ELSE <<>>)

\* the reason text: the clauses, or the generic text when there is none
ReasonText(rank, score, reasons) ==
    [raised |-> "none", rank |-> rank, score |-> score,
     reasons |-> IF reasons # <<>> THEN reasons
                 ELSE << [text |-> "Good balance of urgency, importance, and effort.",
                          n |-> 0] >>]

ReasonFor(task, rank, importance, hours) ==
    IF ~Comparable(importance) \/ ~Comparable(hours)
    THEN [raised |-> "TypeError", rank |-> rank, score |-> task.priority_score,
          reasons |-> <<>>]
    ELSE ReasonText(rank, task.priority_score,
                    DueReasons(parse_date(Get(task.due_date)))
                    \o OtherReasons(importance, hours, task.explanation))

\* generate_suggestion_reason: the reason, or the TypeError it raises
generate_suggestion_reason(task, rank) ==
    ReasonFor(task, rank,
              GetOr(task.importance, Num(50)), GetOr(task.estimated_hours, Num(40)))

\* analysis['tasks'][:count] for count >= 0
TopTasks(sorted_tasks, count) == SubSeq(sorted_tasks, 1, Min(count, Len(sorted_tasks)))

\* the suggestions of get_suggestions, given each task's reason; the call
\* raises what the first failing generate_suggestion_reason raises
SuggestionsOf(top_tasks, reasons) ==
    IF \E i \in 1..Len(top_tasks) : reasons[i].raised # "none"
    THEN [raised |-> reasons[CHOOSE i \in 1..Len(top_tasks) :
                                /\ reasons[i].raised # "none"
                                /\ \A j \in 1..(i - 1) : reasons[j].raised = "none"].raised,
          value |-> <<>>]
    ELSE [raised |-> "none",
          value |-> [i \in 1..Len(top_tasks) |->
                        [rank |-> i, task |-> top_tasks[i], reason |-> reasons[i]]]]

ReasonsOf(top_tasks) ==
    SuggestionsOf(top_tasks,
        [i \in 1..Len(top_tasks) |-> generate_suggestion_reason(top_tasks[i], i)])

get_suggestions(ts, s, count) ==
    ReasonsOf(TopTasks(analyze_tasks(ts, s).tasks, count))

----------------------------------------------------------------------------
(* The request layer (src/tasks/views.py): what it does to the task list of  *)
(* a POST body before it hands the list to the core                          *)

\* the id of a task of a request body: the key is missing, or it holds an
\* integer
NoId == [kind |-> "absent"]
IdGiven(k) == [kind |-> "int", val |-> k]

\* TaskAnalyzeSerializer accepts the task: an integer id if there is one, a
\* float for estimated_hours, an integer from 1 to 10 for importance, a date
\* or nothing for due_date, a list or nothing for dependencies
IsValidTask(t) ==
    /\ t.id.kind \in {"absent", "int"}
    /\ t.estimated_hours.kind \in {"num", "numstr"}
    /\ t.importance.kind \in {"num", "numstr"}
    /\ t.importance.val % 10 = 0
    /\ t.importance.val >= 10 /\ t.importance.val <= 100
    /\ t.due_date.kind \in {"absent", "null", "date", "isodate"}
    /\ t.dependencies.kind \in {"absent", "list"}

\* serializer.is_valid() for many=True
IsValid(ts) == \A i \in 1..Len(ts) : IsValidTask(ts[i])

\* a task of serializer.validated_data: dependencies defaults to a new list
Validated(t) ==
    [t EXCEPT !.dependencies = IF @.kind = "absent" THEN DepList(<<>>) ELSE @]

\* analyze_tasks_view: task_dict['id'] = i + 1 if the key is missing or None;
\* enumerate counts from 0, positions here from 1
ValidatedTasks(ts) ==
    [i \in 1..Len(ts) |->
        [Validated(ts[i]) EXCEPT !.id = IF @.kind \in {"absent", "null"} THEN i ELSE @.val]]

\* suggest_tasks (POST): task['id'] = i + 1 if the key is missing
TasksWithIds(ts) ==
    [i \in 1..Len(ts) |->
        [ts[i] EXCEPT !.id = IF @.kind = "absent" THEN i ELSE @.val]]

\* the body of the response of suggest_tasks (POST) without the date
SuggestBody(suggestions, circular_deps, strat, total) ==
    [suggestions |-> suggestions,
     strategy_used |-> strat,
     total_tasks |-> total,
     warnings |-> circular_deps]

----------------------------------------------------------------------------
(* The inputs of the checked instances *)

Task(id, due, hours, imp, deps) ==
    [id |-> id, due_date |-> due, estimated_hours |-> hours,
     importance |-> imp, dependencies |-> deps]

\* the four preset names and a name that is no preset
Strategies ==
    {"smart_balance", "quick_wins", "high_impact", "deadline_driven", "fastest"}

\* due dates of the scorer specification
WideDue ==
    {DateVal(d) : d \in (-MaxDays)..MaxDays}
    \cup {IsoDateStr(d) : d \in (-MaxDays)..MaxDays}
    \cup {DateTimeVal(d, t) : d \in {-1, 0, 1, 3, 4}, t \in {0, 86399}}
    \cup {IsoZStr(d, t) : d \in {-1, 0, 1, 7, 8}, t \in {0, 86399}}
    \cup {Absent, Null, BadStr, BadObj}

\* estimated hours of the scorer specification, in tenths
WideHours ==
    {Num(h) : h \in (-10)..(10 * MaxHours)}
    \cup {NumStr(5 * h) : h \in 0..(2 * MaxHours)}
    \cup {Absent, Null, BadStr, BadObj}

\* importance ratings of the scorer specification, in tenths
WideImportance ==
    {Num(i) : i \in (-20)..(10 * MaxImportance)}
    \cup {NumStr(10 * i) : i \in 0..MaxImportance}
    \cup {Absent, Null, BadStr, BadObj}

\* one task in which one attribute ranges widely
WideTasks ==
    {Task(1, due, Absent, Absent, Absent) : due \in WideDue}
    \cup {Task(1, Absent, hours, Absent, Absent) : hours \in WideHours}
    \cup {Task(1, Absent, Absent, imp, Absent) : imp \in WideImportance}

\* the tasks a list of the entry-point specification is built from; i is the
\* task's position, which is also its id
Templates(i) ==
    << Task(i, Absent, Absent, Absent, Absent),
       Task(i, DateVal(0), Num(10), Num(100), DepList(<<>>)),
       Task(i, IsoDateStr(30), Num(200), Num(20), DepList(<<1>>)),
       Task(i, BadStr, Absent, Num(250), NotAList),
       Task(i, IsoZStr(2, 3600), NumStr(15), Null, DepList(<<i + 1>>)),
       Task(i, DateTimeVal(-2, 60), Num(45), Num(73), DepList(<<2, 1>>)) >>

\* a call has not been made yet
Ready ==
    /\ pc = "ready"
    /\ op = "none"
    /\ arg = 0
    /\ result = <<>>
    /\ raised = "none"

InitWide ==
    /\ tasks \in {<<t>> : t \in WideTasks}
    /\ strategy \in Strategies
    /\ tie_up \in BOOLEAN
    /\ Ready

InitLists ==
    /\ \E n \in 0..MaxTasks :
          \E pick \in [1..n -> 1..Len(Templates(1))] :
             tasks = [i \in 1..n |-> Templates(i)[pick[i]]]
    /\ strategy \in Strategies
    /\ tie_up \in BOOLEAN
    /\ Ready

Init == InitWide \/ InitLists

\* tasks 1..n that carry only a title and a dependency list
PlainTasks(n, deps) == [i \in 1..n |-> Task(i, Absent, Absent, Absent, DepList(deps[i]))]

\* the dependency list of task i when the dependency entries of all tasks are
\* listed task by task: srcs[k] is the task that declares entry k, dsts[k] the
\* id it names
EntriesOf(i, srcs, dsts) ==
    [k \in 1..Cardinality({j \in 1..Len(srcs) : srcs[j] = i}) |->
        dsts[Cardinality({j \in 1..Len(srcs) : srcs[j] < i}) + k]]

\* every dependency graph of at most GraphTasks tasks and MaxEdges entries;
\* an entry names a task of the list or the id n + 1, which no task has
InitGraph ==
    /\ \E n \in 0..GraphTasks, e \in 0..MaxEdges :
          \E srcs \in [1..e -> 1..n], dsts \in [1..e -> 1..(n + 1)] :
             /\ \A k \in 1..(e - 1) : srcs[k] <= srcs[k + 1]
             /\ tasks = PlainTasks(n, [i \in 1..n |-> EntriesOf(i, srcs, dsts)])
    /\ strategy = "smart_balance"
    /\ tie_up = FALSE
    /\ Ready

\* at most DepTasks otherwise identical tasks, each with no dependency or one
InitDeps ==
    /\ \E n \in 0..DepTasks :
          \E deps \in [1..n -> {<<>>} \cup {<<j>> : j \in 1..n}] :
             tasks = PlainTasks(n, deps)
    /\ strategy \in Strategies
    /\ tie_up = FALSE
    /\ Ready

\* the attributes that the two tasks of a pair share
PairBases ==
    { Task(0, Absent, Absent, Absent, Absent),
      Task(0, DateVal(2), Num(30), Num(70), DepList(<<3>>)) }

\* two tasks with the ids 1 and 2 that differ in the estimated hours (half
\* hours), in the importance (half points) or in the due date
InitPairs ==
    /\ \E base \in PairBases :
          \/ \E a, b \in 0..(2 * MaxHours) :
                /\ a < b
                /\ tasks = << [base EXCEPT !.id = 1, !.estimated_hours = Num(5 * a)],
                              [base EXCEPT !.id = 2, !.estimated_hours = Num(5 * b)] >>
          \/ \E a, b \in 0..(2 * MaxImportance) :
                /\ a < b
                /\ tasks = << [base EXCEPT !.id = 1, !.importance = Num(5 * a)],
                              [base EXCEPT !.id = 2, !.importance = Num(5 * b)] >>
          \/ \E a, b \in (-MaxDays)..MaxDays :
                /\ a < b
                /\ tasks = << [base EXCEPT !.id = 1, !.due_date = DateVal(a)],
                              [base EXCEPT !.id = 2, !.due_date = DateVal(b)] >>
    /\ strategy \in Strategies
    /\ tie_up \in BOOLEAN
    /\ Ready

\* the ids of the tasks of a request body: missing, or one of 1..MaxTasks + 1
RequestIds == {NoId} \cup {IdGiven(k) : k \in 1..(MaxTasks + 1)}

\* the POST bodies of at most MaxTasks tasks whose given ids are pairwise
\* distinct; the first task has an importance the serializer accepts or one
\* it rejects
InitRequest ==
    /\ \E n \in 0..MaxTasks :
          \E ids \in [1..n -> RequestIds], first \in {Num(50), Num(110)} :
             /\ \A i, j \in 1..n : (i # j /\ ids[i] # NoId) => ids[i] # ids[j]
             /\ tasks = [i \in 1..n |->
                            Task(ids[i], Absent, Num(40),
                                 IF i = 1 THEN first ELSE Num(50), Absent)]
    /\ strategy \in {"smart_balance", "fastest"}
    /\ tie_up = FALSE
    /\ Ready

----------------------------------------------------------------------------
(* The entry points: each call runs to its end in one step *)

\* the outcome of a call that returned value; what the call leaves of the
\* caller's task list is stated by each entry point
Returned(name, a, value) ==
    /\ pc' = "done"
    /\ op' = name
    /\ arg' = a
    /\ result' = value
    /\ raised' = "none"
    /\ UNCHANGED <<strategy, tie_up>>

\* the outcome of a call that an exception left
Raised(name, a, exception) ==
    /\ pc' = "done"
    /\ op' = name
    /\ arg' = a
    /\ result' = <<>>
    /\ raised' = exception
    /\ UNCHANGED <<strategy, tie_up>>

\* the four component scorers on tasks[i], as calculate_priority_score and
\* get_score_explanation call them
Components(i) ==
    /\ pc = "ready"
    /\ i \in 1..Len(tasks)
    /\ Returned("components", i,
            [urgency |-> calculate_urgency_score(tasks[i]),
             importance |-> calculate_importance_score(tasks[i]),
             effort |-> calculate_effort_score(tasks[i]),
             dependency |-> calculate_dependency_score(tasks[i], tasks)])
    /\ UNCHANGED tasks

\* score(task, all_tasks, strategy)
Score(i) ==
    /\ pc = "ready"
    /\ i \in 1..Len(tasks)
    /\ Returned("score", i, calculate_priority_score(tasks[i], tasks, strategy))
    /\ UNCHANGED tasks

\* explain(task, all_tasks, strategy)
Explain(i) ==
    /\ pc = "ready"
    /\ i \in 1..Len(tasks)
    /\ Returned("explain", i, get_score_explanation(tasks[i], tasks, strategy))
    /\ UNCHANGED tasks

\* detect cycles(tasks)
Detect ==
    /\ pc = "ready"
    /\ Returned("detect", 0, detect_circular_dependencies(tasks))
    /\ UNCHANGED tasks

\* analyze(tasks, strategy); the only writes are those to the scored copies
Analyze ==
    /\ pc = "ready"
    /\ Returned("analyze", 0, analyze_tasks(tasks, strategy))
    /\ tasks' = InputsAfter(tasks, EffectiveStrategy(strategy))

\* suggest(tasks, strategy, count); it calls analyze_tasks before anything
\* can raise
Suggest(count) ==
    /\ pc = "ready"
    /\ \E got \in {get_suggestions(tasks, strategy, count)} :
          IF got.raised = "none"
          THEN Returned("suggest", count, got.value)
          ELSE Raised("suggest", count, got.raised)
    /\ tasks' = InputsAfter(tasks, EffectiveStrategy(strategy))

Next ==
    \/ \E i \in 1..MaxTasks : Components(i)
    \/ \E i \in 1..MaxTasks : Score(i)
    \/ \E i \in 1..MaxTasks : Explain(i)
    \/ Detect
    \/ Analyze
    \/ \E count \in 0..(MaxTasks + 1) : Suggest(count)

\* POST /api/tasks/analyze/: validation, id assignment, analyze_tasks; tasks
\* becomes the list handed to the core
AnalyzeView ==
    /\ pc = "ready"
    /\ IF IsValid(tasks)
       THEN \E validated_tasks \in {ValidatedTasks(tasks)} :
               /\ tasks' = validated_tasks
               /\ Returned("analyze_view", 0,
                      [status |-> 200, body |-> analyze_tasks(validated_tasks, strategy)])
       ELSE /\ UNCHANGED tasks
            /\ Returned("analyze_view", 0, [status |-> 400, body |-> <<>>])

\* POST /api/tasks/suggest/: id assignment in place, get_suggestions with
\* count 3, detect_circular_dependencies; an exception becomes status 500
SuggestView ==
    /\ pc = "ready"
    /\ \E with_ids \in {TasksWithIds(tasks)} :
          /\ tasks' = with_ids
          /\ \E got \in {get_suggestions(with_ids, strategy, 3)} :
                IF got.raised = "none"
                THEN Returned("suggest_view", 0,
                        [status |-> 200,
                         body |-> SuggestBody(got.value,
                                              detect_circular_dependencies(with_ids),
                                              strategy, Len(with_ids))])
                ELSE Returned("suggest_view", 0, [status |-> 500, body |-> <<>>])

\* the entry points on single tasks with wide attributes and on mixed lists
Spec == Init /\ [][Next]_vars

\* cycle detection on every small dependency graph
NextCycle == Detect

SpecCycle == InitGraph /\ [][NextCycle]_vars

\* the search and the component scorers on every small dependency graph,
\* for what each of them does with the ids of a dependency list
NextSearch ==
    \/ Detect
    \/ \E i \in 1..GraphTasks : Components(i)

SpecSearch == InitGraph /\ [][NextSearch]_vars

\* the dependency scorer and the ranking on lists of otherwise identical tasks
NextDeps ==
    \/ \E i \in 1..DepTasks : Components(i)
    \/ Analyze

SpecDeps == InitDeps /\ [][NextDeps]_vars

\* the ranking of two tasks that differ in one attribute
NextPairs == Analyze

SpecPairs == InitPairs /\ [][NextPairs]_vars

\* the two POST handlers on request bodies with and without ids
NextRequest ==
    \/ AnalyzeView
    \/ SuggestView

SpecRequest == InitRequest /\ [][NextRequest]_vars

----------------------------------------------------------------------------
(* Properties *)

Done(name) == pc = "done" /\ op = name

InRange(score) == score >= 0 /\ score <= 10000

\* C1: every component score and every blended priority score lies in
\* [0,100], for single scores, for the component scorers and for every task
\* of an analysis, whatever the fields hold and whatever the strategy name
C1_ScoresInRange ==
    /\ Done("components") =>
          /\ InRange(result.urgency.score)
          /\ InRange(result.importance.score)
          /\ InRange(result.effort.score)
          /\ InRange(result.dependency.score)
    /\ Done("score") => InRange(result)
    /\ Done("analyze") =>
          \A k \in 1..Len(result.tasks) : InRange(result.tasks[k].priority_score)

\* C1 witness: a task with an importance above the scale, scored under a
\* name that is no preset
C1_Witness ==
    /\ Done("score")
    /\ strategy = "fastest"
    /\ tasks[arg].importance = Num(10 * MaxImportance)
    /\ InRange(result)

\* the position in the input of the task with this id
InputPosition(id) == CHOOSE i \in 1..Len(tasks) : tasks[i].id = id

\* C2: the tasks of an analysis are the input tasks, each exactly once, by
\* priority_score non-increasing, and tasks of equal score keep their input
\* order
C2_SortedStable ==
    Done("analyze") =>
        /\ Len(result.tasks) = Len(tasks)
        /\ \A i \in 1..Len(tasks) :
              Cardinality({k \in 1..Len(result.tasks) :
                  /\ result.tasks[k].id = tasks[i].id
                  /\ result.tasks[k].due_date = tasks[i].due_date
                  /\ result.tasks[k].estimated_hours = tasks[i].estimated_hours
                  /\ result.tasks[k].importance = tasks[i].importance
                  /\ result.tasks[k].dependencies = tasks[i].dependencies}) = 1
        /\ \A k, l \in 1..Len(result.tasks) :
              k < l => /\ result.tasks[k].priority_score >= result.tasks[l].priority_score
                       /\ result.tasks[k].priority_score = result.tasks[l].priority_score
                            => InputPosition(result.tasks[k].id) < InputPosition(result.tasks[l].id)

\* C2 witness: the sort moved the last task to the front and left two tasks
\* of equal score behind it
C2_Witness ==
    /\ Done("analyze")
    /\ Len(result.tasks) = 3
    /\ result.tasks[1].id = 3
    /\ result.tasks[2].priority_score = result.tasks[3].priority_score
    /\ result.tasks[1].priority_score > result.tasks[2].priority_score

\* the ids of the tasks of the set
TaskIds == {tasks[i].id : i \in 1..Len(tasks)}

\* a declares b as a dependency and b is the id of a task of the set
ValidEdge(a, b) ==
    /\ b \in TaskIds
    /\ \E i \in 1..Len(tasks) : tasks[i].id = a /\ InSeq(b, DepsOf(tasks[i]))

RECURSIVE PathWithin(_, _, _)
\* there is a path of at least one and at most k valid edges from a to b
PathWithin(a, b, k) ==
    /\ k > 0
    /\ \/ ValidEdge(a, b)
       \/ \E c \in TaskIds : ValidEdge(a, c) /\ PathWithin(c, b, k - 1)

\* the dependency graph, restricted to valid edges, has a directed cycle
HasCycle == \E a \in TaskIds : PathWithin(a, a, Len(tasks))

\* C3: cycles are reported exactly when the dependency graph restricted to
\* the ids of the set has a directed cycle, and two tasks that depend on each
\* other are both in some reported cycle
C3_CyclesIffCyclic ==
    Done("detect") =>
        /\ (result # <<>>) <=> HasCycle
        /\ \A a, b \in TaskIds :
              (a # b /\ ValidEdge(a, b) /\ ValidEdge(b, a))
                  => \E k \in 1..Len(result) : InSeq(a, result[k]) /\ InSeq(b, result[k])

\* C3 witness: three tasks on one cycle, and the cycle is reported
C3_Witness ==
    /\ Done("detect")
    /\ Len(tasks) = 3
    /\ DepsOf(tasks[1]) = <<3>> /\ DepsOf(tasks[2]) = <<1>> /\ DepsOf(tasks[3]) = <<2>>
    /\ HasCycle
    /\ result = << <<1, 3, 2, 1>> >>

\* C4: a task that lists itself as a dependency is reported as the cycle
\* made of its own id alone
C4_SelfDependency ==
    Done("detect") =>
        \A i \in 1..Len(tasks) :
            InSeq(tasks[i].id, DepsOf(tasks[i]))
                => \E k \in 1..Len(result) : result[k] = <<tasks[i].id, tasks[i].id>>

\* C4 witness: the second task of a chain depends on itself
C4_Witness ==
    /\ Done("detect")
    /\ Len(tasks) = 2
    /\ DepsOf(tasks[1]) = <<2>>
    /\ DepsOf(tasks[2]) = <<2>>
    /\ result = << <<2, 2>> >>

\* the number of tasks other than tasks[i] whose dependency list names its id
OthersBlocked(i) ==
    Cardinality({j \in 1..Len(tasks) : j # i /\ InSeq(tasks[i].id, DepsOf(tasks[j]))})

\* the documented dependency policy for tasks[i]
PolicyScore(i) ==
    IF Len(DepsOf(tasks[i])) > 0 THEN 2000
    ELSE IF OthersBlocked(i) >= 3 THEN 10000
    ELSE IF OthersBlocked(i) = 2 THEN 8000
    ELSE IF OthersBlocked(i) = 1 THEN 6000
    ELSE 4000

\* the priority score an analysis gave to the task with this id
ScoreOfId(id) ==
    (CHOOSE t \in {result.tasks[k] : k \in 1..Len(result.tasks)} : t.id = id).priority_score

SameAttributes(t, u) ==
    /\ t.due_date = u.due_date
    /\ t.estimated_hours = u.estimated_hours
    /\ t.importance = u.importance

\* C5: a task with a dependency of its own scores 20 however many tasks list
\* it; a task without scores 100, 80, 60 or 40 for >= 3, 2, 1 or 0 other
\* tasks that list it; and an unblocked task that blocks another one ranks
\* strictly above an otherwise identical independent task
C5_DependencyPolicy ==
    /\ Done("components") => result.dependency.score = PolicyScore(arg)
    /\ Done("analyze") =>
          \A i, j \in 1..Len(tasks) :
              ( /\ SameAttributes(tasks[i], tasks[j])
                /\ Len(DepsOf(tasks[i])) = 0 /\ OthersBlocked(i) >= 1
                /\ Len(DepsOf(tasks[j])) = 0 /\ OthersBlocked(j) = 0 )
                  => ScoreOfId(tasks[i].id) > ScoreOfId(tasks[j].id)

\* C5 witness: a task without dependencies that three other tasks list
C5_Witness ==
    /\ Done("components")
    /\ Len(DepsOf(tasks[arg])) = 0
    /\ OthersBlocked(arg) = 3
    /\ result.dependency.score = 10000

Presets == {"smart_balance", "quick_wins", "high_impact", "deadline_driven"}

\* the documented weight table, in hundredths
DocumentedWeights(s) ==
    IF s = "quick_wins"
    THEN [urgency |-> 15, importance |-> 15, effort |-> 55, dependencies |-> 15]
    ELSE IF s = "high_impact"
    THEN [urgency |-> 15, importance |-> 60, effort |-> 10, dependencies |-> 15]
    ELSE IF s = "deadline_driven"
    THEN [urgency |-> 60, importance |-> 15, effort |-> 10, dependencies |-> 15]
    ELSE [urgency |-> 35, importance |-> 30, effort |-> 15, dependencies |-> 20]

\* the weighted sum of the component scores of tasks[i] with the documented
\* weights of strategy s, in 1/10000
DocumentedSum(i, s) ==
    calculate_urgency_score(tasks[i]).score * DocumentedWeights(s).urgency
    + calculate_importance_score(tasks[i]).score * DocumentedWeights(s).importance
    + calculate_effort_score(tasks[i]).score * DocumentedWeights(s).effort
    + calculate_dependency_score(tasks[i], tasks).score * DocumentedWeights(s).dependencies

\* what C6 says apart from the value of the score: no error, the fallback of
\* an unknown name to smart_balance in score, explain and analyze, the
\* strategy reported by analyze, and weights that sum to 1
FallbackToSmartBalance ==
    /\ (Done("score") \/ Done("explain") \/ Done("analyze")) =>
          /\ raised = "none"
          /\ WeightsFor(strategy).urgency + WeightsFor(strategy).importance
               + WeightsFor(strategy).effort + WeightsFor(strategy).dependencies = 100
    /\ (Done("score") /\ strategy \notin Presets) =>
          result = calculate_priority_score(tasks[arg], tasks, "smart_balance")
    /\ (Done("explain") /\ strategy \notin Presets) =>
          result = get_score_explanation(tasks[arg], tasks, "smart_balance")
    /\ (Done("analyze") /\ strategy \notin Presets) =>
          /\ result = analyze_tasks(tasks, "smart_balance")
          /\ result.strategy_used = "smart_balance"
    /\ (Done("analyze") /\ strategy \in Presets) => result.strategy_used = strategy

\* C6 as stated: unknown names behave as smart_balance without error, and
\* for the four presets the score is the weighted sum of the component
\* scores with the preset's weights
C6_Original ==
    /\ FallbackToSmartBalance
    /\ (Done("score") /\ strategy \in Presets) =>
          100 * result = DocumentedSum(arg, strategy)

\* C6 amended: unknown names behave as smart_balance without error, and for
\* the four presets the score is the weighted sum of the component scores
\* with the preset's weights rounded to two decimals
C6_FallbackAndRoundedSum ==
    /\ FallbackToSmartBalance
    /\ (Done("score") /\ strategy \in Presets) =>
          Abs(100 * result - DocumentedSum(arg, strategy)) <= 50

\* C6 witness: an analysis of three tasks under a name that is no preset
C6_Witness ==
    /\ Done("analyze")
    /\ strategy = "fastest"
    /\ Len(tasks) = 3
    /\ result.strategy_used = "smart_balance"

\* C7: no entry point raises, whatever shape the importance, estimated_hours,
\* due_date and dependencies fields have, and a task with only a title gets
\* a positive score
C7_NeverRaises ==
    /\ pc = "done" => raised = "none"
    /\ (Done("score") /\ tasks[arg] = Task(arg, Absent, Absent, Absent, Absent)) => result > 0

\* the due date the documentation reads from the field: its calendar day for
\* a date, a datetime and the two string formats, none otherwise
Parsable(due) == due.kind \in {"date", "datetime", "isodate", "isoz"}

\* the documented urgency table, in hundredths, for d days until due
DocumentedUrgency(d) ==
    IF d < 0 THEN 10000
    ELSE IF d = 0 THEN 9500
    ELSE IF d <= 3 THEN 100 * (94 - 5 * (d - 1))
    ELSE IF d <= 7 THEN 100 * (79 - 7 * (d - 4))
    ELSE IF d <= 14 THEN 100 * (49 - 3 * (d - 8))
    ELSE IF 29 - (d - 15) > 10 THEN 100 * (29 - (d - 15))
    ELSE 1000

\* C8: the urgency score follows the documented table in the days until due,
\* and an unparsable due date gives what an absent one gives: 50 and the
\* neutral explanation
C8_UrgencyTable ==
    Done("components") =>
        IF Parsable(tasks[arg].due_date)
        THEN result.urgency.score = DocumentedUrgency(tasks[arg].due_date.day)
        ELSE result.urgency =
                [score |-> 5000,
                 exp |-> [text |-> "No due date set (neutral urgency)", n |-> 0]]

\* C8 witness: a due date so far away that the floor of 10 applies
C8_Witness ==
    /\ Done("components")
    /\ tasks[arg].due_date = IsoDateStr(MaxDays)
    /\ 29 - (MaxDays - 15) < 10
    /\ result.urgency.score = 1000

\* the hours the documentation scores, in tenths: the number given, floored
\* at 0.5, or 4 when the field is absent, null or not numeric
DocumentedHours(field) ==
    IF field.kind \in {"num", "numstr"}
    THEN (IF field.val < 5 THEN 5 ELSE field.val)
    ELSE 40

\* the documented effort table, in hundredths, for h tenths of an hour
DocumentedEffort(h) ==
    IF h <= 10 THEN 10000
    ELSE IF h <= 20 THEN 9000
    ELSE IF h <= 40 THEN 8000 - 50 * (h - 20)
    ELSE IF h <= 80 THEN 7000 - 75 * (h - 40)
    ELSE IF h <= 160 THEN 4000 - 25 * (h - 80)
    ELSE IF 2000 - 5 * (h - 160) > 1000 THEN 2000 - 5 * (h - 160)
    ELSE 1000

\* C9: the effort score is the documented table applied to the hours floored
\* at 0.5 (4 when absent or not numeric), the hours used and shown are never
\* below 0.5, 1 hour scores 100 and 20 hours score below 20 as a major effort
C9_EffortTable ==
    Done("components") =>
        /\ result.effort.score = DocumentedEffort(DocumentedHours(tasks[arg].estimated_hours))
        /\ result.effort.exp.n = DocumentedHours(tasks[arg].estimated_hours)
        /\ result.effort.exp.n >= 5
        /\ tasks[arg].estimated_hours = Num(10) => result.effort.score = 10000
        /\ tasks[arg].estimated_hours = Num(200) =>
              /\ result.effort.score < 2000
              /\ result.effort.exp.text = "Major effort"

\* C9 witness: a task estimated at 20 hours
C9_Witness ==
    /\ Done("components")
    /\ tasks[arg].estimated_hours = Num(200)
    /\ result.effort.score = 1800
    /\ result.effort.exp.text = "Major effort"

\* the rating the documentation scales, in tenths: the number given clamped
\* into 1..10, or 5 when the field is absent, null or not numeric
DocumentedRating(field) ==
    IF field.kind \in {"num", "numstr"}
    THEN (IF field.val < 10 THEN 10 ELSE IF field.val > 100 THEN 100 ELSE field.val)
    ELSE 50

DocumentedLabel(rating) ==
    IF rating >= 80 THEN "Critical"
    ELSE IF rating >= 60 THEN "High"
    ELSE IF rating >= 40 THEN "Medium"
    ELSE "Low"

\* C10: the importance score is ten times the rating clamped into [1,10]
\* (5 when absent or not numeric), so it lies in [10,100], and the label is
\* Critical, High, Medium or Low by the thresholds 8, 6 and 4
C10_ImportanceClamp ==
    Done("components") =>
        /\ result.importance.score = 100 * DocumentedRating(tasks[arg].importance)
        /\ result.importance.score >= 1000 /\ result.importance.score <= 10000
        /\ result.importance.exp.text = DocumentedLabel(DocumentedRating(tasks[arg].importance))
        /\ tasks[arg].importance = Num(100) =>
              result.importance.score = 10000 /\ result.importance.exp.text = "Critical"
        /\ tasks[arg].importance = Num(10) =>
              result.importance.score = 1000 /\ result.importance.exp.text = "Low"
        /\ tasks[arg].importance = Absent => result.importance.score = 5000

\* C10 witness: a rating above the scale is clamped to 10
C10_Witness ==
    /\ Done("components")
    /\ tasks[arg].importance = Num(10 * MaxImportance)
    /\ MaxImportance > 10
    /\ result.importance.score = 10000
    /\ result.importance.exp.text = "Critical"

\* the field holds a number
Numeric(field) == field.kind \in {"num", "numstr"}

\* tasks[i] and tasks[j] agree on every attribute but the id and the
\* estimated hours, the importance or the due date respectively
SameButHours(i, j) ==
    /\ tasks[i].due_date = tasks[j].due_date
    /\ tasks[i].importance = tasks[j].importance
    /\ tasks[i].dependencies = tasks[j].dependencies

SameButImportance(i, j) ==
    /\ tasks[i].due_date = tasks[j].due_date
    /\ tasks[i].estimated_hours = tasks[j].estimated_hours
    /\ tasks[i].dependencies = tasks[j].dependencies

SameButDue(i, j) ==
    /\ tasks[i].estimated_hours = tasks[j].estimated_hours
    /\ tasks[i].importance = tasks[j].importance
    /\ tasks[i].dependencies = tasks[j].dependencies

\* tasks[i] has fewer hours, a higher importance or a nearer deadline than
\* the otherwise identical tasks[j]
Favoured(i, j) ==
    \/ /\ SameButHours(i, j)
       /\ Numeric(tasks[i].estimated_hours) /\ Numeric(tasks[j].estimated_hours)
       /\ tasks[i].estimated_hours.val < tasks[j].estimated_hours.val
    \/ /\ SameButImportance(i, j)
       /\ Numeric(tasks[i].importance) /\ Numeric(tasks[j].importance)
       /\ tasks[i].importance.val > tasks[j].importance.val
    \/ /\ SameButDue(i, j)
       /\ Parsable(tasks[i].due_date) /\ Parsable(tasks[j].due_date)
       /\ tasks[i].due_date.day < tasks[j].due_date.day

\* C11: under every strategy, of two tasks that differ in one attribute the
\* one with fewer hours, higher importance or nearer deadline never scores
\* lower; under quick_wins 1 hour scores strictly above 20 hours, and under
\* high_impact importance 10 scores more than 30 points above importance 2
C11_StrategyEmphasis ==
    Done("analyze") =>
        \A i, j \in 1..Len(tasks) :
            /\ Favoured(i, j) => ScoreOfId(tasks[i].id) >= ScoreOfId(tasks[j].id)
            /\ ( /\ strategy = "quick_wins"
                 /\ SameButHours(i, j)
                 /\ tasks[i].estimated_hours = Num(10)
                 /\ tasks[j].estimated_hours = Num(200) )
                  => ScoreOfId(tasks[i].id) > ScoreOfId(tasks[j].id)
            /\ ( /\ strategy = "high_impact"
                 /\ SameButImportance(i, j)
                 /\ tasks[i].importance = Num(100)
                 /\ tasks[j].importance = Num(20) )
                  => ScoreOfId(tasks[i].id) - ScoreOfId(tasks[j].id) > 3000

\* C11 witness: the 1 hour task and the 20 hour task under quick_wins
C11_Witness ==
    /\ Done("analyze")
    /\ strategy = "quick_wins"
    /\ Len(tasks) = 2
    /\ SameButHours(1, 2)
    /\ tasks[1].estimated_hours = Num(10)
    /\ tasks[2].estimated_hours = Num(200)
    /\ ScoreOfId(1) > ScoreOfId(2)

\* C12: every task of an analysis is 'high' exactly from a score of 70,
\* 'medium' exactly from 40 to below 70 and 'low' exactly below 40, so in the
\* sorted output no 'low' task precedes a 'medium' or 'high' one and no
\* 'medium' task precedes a 'high' one
C12_PriorityLevel ==
    Done("analyze") =>
        /\ \A k \in 1..Len(result.tasks) :
              /\ result.tasks[k].priority_level \in {"high", "medium", "low"}
              /\ result.tasks[k].priority_level = "high"
                    <=> result.tasks[k].priority_score >= 7000
              /\ result.tasks[k].priority_level = "medium"
                    <=> ( /\ result.tasks[k].priority_score >= 4000
                          /\ result.tasks[k].priority_score < 7000 )
              /\ result.tasks[k].priority_level = "low"
                    <=> result.tasks[k].priority_score < 4000
        /\ \A k, l \in 1..Len(result.tasks) :
              k < l =>
                  /\ result.tasks[k].priority_level = "low"
                        => result.tasks[l].priority_level = "low"
                  /\ result.tasks[k].priority_level = "medium"
                        => result.tasks[l].priority_level # "high"

\* C12 witness: an analysis with one task of each level, the input order
\* being low, medium, high
C12_Witness ==
    /\ Done("analyze")
    /\ Len(result.tasks) = 3
    /\ result.tasks[1].priority_level = "high" /\ result.tasks[1].id = 3
    /\ result.tasks[2].priority_level = "medium" /\ result.tasks[2].id = 2
    /\ result.tasks[3].priority_level = "low" /\ result.tasks[3].id = 1

\* the id is not the id of any task of the set
Dangling(id) == id \notin TaskIds

\* C13: an id that no task of the set has is never handed to the recursive
\* helper, never marked visited and never part of a reported cycle, and a
\* task whose dependency list holds only such ids has the dependency score 20
C13_DanglingIds ==
    /\ Done("detect") =>
          /\ \A search \in {Search(tasks)} :
                /\ \A c \in 1..Len(search.calls) : ~Dangling(search.calls[c].node)
                /\ \A id \in search.visited : ~Dangling(id)
          /\ \A k \in 1..Len(result) : \A x \in 1..Len(result[k]) : ~Dangling(result[k][x])
    /\ ( /\ Done("components")
         /\ Len(DepsOf(tasks[arg])) > 0
         /\ \A x \in 1..Len(DepsOf(tasks[arg])) : Dangling(DepsOf(tasks[arg])[x]) )
          => result.dependency.score = 2000

\* C13 witness: the first task of a cycle of two also names an id that no
\* task has, before and after the id of the other task
C13_Witness ==
    /\ Done("detect")
    /\ Len(tasks) = 2
    /\ DepsOf(tasks[1]) = <<3, 2, 3>>
    /\ DepsOf(tasks[2]) = <<1>>
    /\ result = << <<1, 2, 1>> >>

\* the keys of a task record as the caller supplies it
InputKeys == {"id", "due_date", "estimated_hours", "importance", "dependencies"}

\* the keys analyze_tasks adds to a scored task
AddedKeys == {"priority_score", "explanation", "priority_level"}

\* C14: no call of score, explain, the component scorers, detect cycles,
\* analyze or suggest changes a field, a value or the order of the caller's
\* task list, and the three added keys are on the returned records only
C14_InputsUnchanged ==
    /\ [][tasks' = tasks]_vars
    /\ [](\A i \in 1..Len(tasks) : DOMAIN tasks[i] = InputKeys)
    /\ [](Done("analyze") =>
            \A k \in 1..Len(result.tasks) :
                DOMAIN result.tasks[k] = InputKeys \cup AddedKeys)
    /\ []((Done("suggest") /\ raised = "none") =>
            \A k \in 1..Len(result) :
                DOMAIN result[k].task = InputKeys \cup AddedKeys)

\* C14 witness: an analysis whose output starts with the last task of the
\* input, while the input still holds its three records in their order
C14_Witness ==
    /\ Done("analyze")
    /\ Len(tasks) = 3
    /\ result.tasks[1].id = 3
    /\ DOMAIN result.tasks[1] = InputKeys \cup AddedKeys
    /\ \A i \in 1..3 : tasks[i].id = i /\ DOMAIN tasks[i] = InputKeys

\* the four factor names in the order get_score_explanation lists them
FactorNames == <<"Urgency", "Importance", "Effort", "Dependencies">>

\* the documented weight, in hundredths, of the factor with this name under
\* the strategy in force (smart_balance for a name that is no preset)
DocumentedWeightOf(name) ==
    IF name = "Urgency"
    THEN DocumentedWeights(IF strategy \in Presets THEN strategy ELSE "smart_balance").urgency
    ELSE IF name = "Importance"
    THEN DocumentedWeights(IF strategy \in Presets THEN strategy ELSE "smart_balance").importance
    ELSE IF name = "Effort"
    THEN DocumentedWeights(IF strategy \in Presets THEN strategy ELSE "smart_balance").effort
    ELSE DocumentedWeights(IF strategy \in Presets THEN strategy ELSE "smart_balance").dependencies

\* the position of the name in the fixed order
FixedPosition(name) == CHOOSE k \in 1..4 : FactorNames[k] = name

\* the names of the parts of an explanation, in their order
NamesOf(explanation) == [k \in 1..Len(explanation) |-> explanation[k].name]

\* C15: an explanation lists each of the four factors exactly once, by the
\* weight of the strategy in force non-increasing, equal weights in the order
\* Urgency, Importance, Effort, Dependencies; quick_wins gives Effort,
\* Urgency, Importance, Dependencies and a name that is no preset gives
\* Urgency, Importance, Dependencies, Effort
C15_ExplanationOrder ==
    Done("explain") =>
        /\ Len(result) = 4
        /\ \A n \in 1..4 :
              Cardinality({k \in 1..Len(result) : result[k].name = FactorNames[n]}) = 1
        /\ \A k, l \in 1..Len(result) :
              k < l =>
                  /\ DocumentedWeightOf(result[k].name) >= DocumentedWeightOf(result[l].name)
                  /\ DocumentedWeightOf(result[k].name) = DocumentedWeightOf(result[l].name)
                        => FixedPosition(result[k].name) < FixedPosition(result[l].name)
        /\ strategy = "quick_wins"
              => NamesOf(result) = <<"Effort", "Urgency", "Importance", "Dependencies">>
        /\ strategy \notin Presets
              => NamesOf(result) = <<"Urgency", "Importance", "Dependencies", "Effort">>

\* C15 witness: under high_impact the factor listed second in the code comes
\* first and the two factors of weight 0.15 keep their order
C15_Witness ==
    /\ Done("explain")
    /\ strategy = "high_impact"
    /\ NamesOf(result) = <<"Importance", "Urgency", "Dependencies", "Effort">>

\* what C16 says of the suggestions a call returned
SuggestionsAsRanked ==
    /\ Len(result) = Min(arg, Len(tasks))
    /\ \A i \in 1..Len(result) :
          /\ result[i].rank = i
          /\ result[i].task = analyze_tasks(tasks, strategy).tasks[i]
    /\ \A i, j \in 1..Len(result) :
          i < j => result[i].task.priority_score >= result[j].task.priority_score

\* C16: for n tasks and a count K >= 0, suggest returns min(K, n)
\* suggestions, the i-th with rank i and with the i-th task of the analysis
\* of the same input, so scores do not increase with the rank
C16_SuggestionCount ==
    Done("suggest") => (raised = "none" /\ SuggestionsAsRanked)

\* the same for the calls that return
C16_WhenReturned ==
    (Done("suggest") /\ raised = "none") => SuggestionsAsRanked

\* the id a reported cycle closes on, and the id of the task whose dependency
\* entry closed it
ClosesOn(cycle) == cycle[Len(cycle)]
ClosedFrom(cycle) == cycle[Len(cycle) - 1]

\* how often the dependency list of the task with the id from names the id to
EntriesNaming(from, to) ==
    Cardinality({x \in 1..Len(DepsOf(tasks[InputPosition(from)])) :
                    DepsOf(tasks[InputPosition(from)])[x] = to})

\* C17 as stated: no two reported cycles close on the same node
C17_OnePerNode ==
    Done("detect") =>
        \A k, l \in 1..Len(result) :
            k # l => ~( /\ result[k][1] = result[l][1]
                        /\ ClosesOn(result[k]) = ClosesOn(result[l]) )

\* C17 amended: one cycle is reported per dependency entry that re-enters a
\* node of the current path, so the reported cycles that close on the same
\* node from the same task are at most as many as the entries of that task's
\* dependency list that name the node
C17_OnePerEntry ==
    Done("detect") =>
        \A k \in 1..Len(result) :
            /\ Len(result[k]) >= 2
            /\ Cardinality({l \in 1..Len(result) :
                    /\ ClosesOn(result[l]) = ClosesOn(result[k])
                    /\ ClosedFrom(result[l]) = ClosedFrom(result[k])})
                  <= EntriesNaming(ClosedFrom(result[k]), ClosesOn(result[k]))

\* C17 witness: two cycles through task 1, closed from task 2 and from task 3
C17_Witness ==
    /\ Done("detect")
    /\ Len(tasks) = 3
    /\ DepsOf(tasks[1]) = <<2, 3>>
    /\ DepsOf(tasks[2]) = <<1>>
    /\ DepsOf(tasks[3]) = <<1>>
    /\ result = << <<1, 2, 1>>, <<1, 3, 1>> >>

RECURSIVE SimplePaths(_)
\* the paths of k pairwise distinct ids along valid edges that start at the
\* smallest of their ids
SimplePaths(k) ==
    IF k = 1 THEN {<<a>> : a \in TaskIds}
    ELSE {Append(step[1], step[2]) :
            step \in {q \in SimplePaths(k - 1) \X TaskIds :
                        /\ q[2] > q[1][1]
                        /\ ~InSeq(q[2], q[1])
                        /\ ValidEdge(q[1][Len(q[1])], q[2])}}

\* the simple cycles of the dependency graph restricted to the ids of the
\* set, each written once, from its smallest id on, without the closing id
SimpleCycles ==
    {c \in UNION {SimplePaths(k) : k \in 1..Len(tasks)} : ValidEdge(c[Len(c)], c[1])}

\* some call of the recursive helper returned at once because its node was
\* marked visited and was not on the recursion stack
SkippedVisited ==
    \E calls \in {Search(tasks).calls} :
        \E c \in 1..Len(calls) :
            /\ calls[c].node \in calls[c].visited
            /\ calls[c].node \notin calls[c].rec_stack

\* task 1 depends on 2 and 3, task 2 on 3, task 3 on 1
OverlappingCycles ==
    /\ Len(tasks) = 3
    /\ \A i \in 1..3 : tasks[i].id = i
    /\ DepsOf(tasks[1]) = <<2, 3>>
    /\ DepsOf(tasks[2]) = <<3>>
    /\ DepsOf(tasks[3]) = <<1>>

\* C18: for task 1 depending on 2 and 3, 2 on 3 and 3 on 1 one cycle is
\* reported while the graph has two simple cycles, and whenever fewer cycles
\* are reported than the graph has simple cycles, a node marked visited was
\* met again and not explored
C18_NotExhaustive ==
    Done("detect") =>
        /\ OverlappingCycles =>
              /\ Cardinality(SimpleCycles) = 2
              /\ Len(result) = 1
        /\ Len(result) < Cardinality(SimpleCycles) => SkippedVisited

\* C18 witness: the search of the overlapping cycles reported fewer cycles
\* than there are
C18_Witness ==
    /\ Done("detect")
    /\ OverlappingCycles
    /\ result = << <<1, 2, 3, 1>> >>
    /\ Len(result) < Cardinality(SimpleCycles)
    /\ SkippedVisited

\* the ids a request supplies are pairwise distinct
GivenIdsDistinct(request) ==
    \A i, j \in 1..Len(request) :
        (i # j /\ request[i].id # NoId) => request[i].id # request[j].id

\* the ids of a task list handed to the core are pairwise distinct
IdsDistinct(ts) ==
    \A i, j \in 1..Len(ts) : i # j => ts[i].id # ts[j].id

\* C19: when a POST handler has assigned position + 1 to the tasks without
\* an id of a request whose given ids are pairwise distinct, the ids of the
\* list it hands to the core are pairwise distinct
C19_UniqueIds ==
    [][ ( /\ pc = "ready"
          /\ GivenIdsDistinct(tasks)
          /\ op' \in {"analyze_view", "suggest_view"}
          /\ result'.status = 200 )
        => IdsDistinct(tasks') ]_vars

\* the ids of a path
IdsOn(path) == {path[i] : i \in 1..Len(path)}

\* C20: every reported cycle has at least two entries, starts and ends with
\* the same id, repeats no id before the last entry, holds ids of tasks of
\* the set only and follows declared dependencies from each entry to the
\* next; and at every call of the recursive helper the recursion stack is
\* the set of the ids on the path, so a node found on the stack is on the
\* path
C20_CyclesAreClosedPaths ==
    Done("detect") =>
        /\ \A k \in 1..Len(result) :
              /\ Len(result[k]) >= 2
              /\ result[k][1] = result[k][Len(result[k])]
              /\ \A x, y \in 1..(Len(result[k]) - 1) : x # y => result[k][x] # result[k][y]
              /\ \A x \in 1..Len(result[k]) : result[k][x] \in TaskIds
              /\ \A x \in 1..(Len(result[k]) - 1) :
                    InSeq(result[k][x + 1], DepsOf(tasks[InputPosition(result[k][x])]))
        /\ \A calls \in {Search(tasks).calls} :
              \A c \in 1..Len(calls) :
                  /\ calls[c].rec_stack = IdsOn(calls[c].path)
                  /\ calls[c].node \in calls[c].rec_stack
                        => InSeq(calls[c].node, calls[c].path)

\* C20 witness: two cycles through task 2, the first found at depth three,
\* the second after task 3 has left the recursion stack
C20_Witness ==
    /\ Done("detect")
    /\ Len(tasks) = 3
    /\ DepsOf(tasks[1]) = <<2>>
    /\ DepsOf(tasks[2]) = <<3, 1>>
    /\ DepsOf(tasks[3]) = <<2>>
    /\ result = << <<2, 3, 2>>, <<1, 2, 1>> >>
    /\ \E calls \in {Search(tasks).calls} :
          /\ \E c \in 1..Len(calls) :
                /\ calls[c].path = <<1, 2, 3>>
                /\ calls[c].rec_stack = {1, 2, 3}
          /\ \E c \in 1..Len(calls) :
                /\ calls[c].node = 1
                /\ calls[c].path = <<1, 2>>
                /\ calls[c].rec_stack = {1, 2}

\* the calls of dfs that pass both tests, on rec_stack and on visited, and go
\* on to iterate the dependency list of node
Expansions(search, node) ==
    {c \in 1..Len(search.calls) :
        /\ search.calls[c].node = node
        /\ node \notin search.calls[c].rec_stack
        /\ node \notin search.calls[c].visited}

\* the dependency entries, task by task, that name the id of a task of the set
ValidEntries ==
    UNION { { <<i, x>> : x \in {y \in 1..Len(DepsOf(tasks[i])) :
                                    DepsOf(tasks[i])[y] \in TaskIds} } :
            i \in 1..Len(tasks) }

====
